---- MODULE Spec2Model ----
(***************************************************************************)
(* State-machine model of the GeometryExplorer React component             *)
(* (src/src/components/GeometryExplorer/GeometryExplorer.tsx).             *)
(*                                                                         *)
(* The component state, its refs, the localStorage entries, the objects    *)
(* created by the scene effect (renderer, camera, geometry, material,      *)
(* mesh, canvas element), the requestAnimationFrame queue and the window   *)
(* resize listeners are the variables.  Of the objects of a construction   *)
(* that has been replaced only the disposal ledger is kept: nothing in     *)
(* the component reads their other fields again.  JavaScript runs every    *)
(* callback to completion, and React flushes the effects of a click        *)
(* before the next event is delivered: the effects queued by a commit are  *)
(* the sequence `pending`, consumed one effect per step, and no event      *)
(* (click, frame, resize) is delivered while it is non-empty.              *)
(*                                                                         *)
(* Angles are fixed-point, in units of 0.001 rad.                          *)
(***************************************************************************)
EXTENDS Integers, Sequences, FiniteSets, TLC

\* ------------------------------------------------------------------ bounds
MaxConstructions == 2
MaxFrames == 2

\* --------------------------------------------------------------- constants
\* Keys of GEOMETRIES, in declaration order.
GeometryOrder ==
  <<"box", "sphere", "plane", "cone", "cylinder", "torus", "torusKnot", "ring">>

GeometryKeys == {GeometryOrder[i] : i \in 1..Len(GeometryOrder)}

\* localStorage.getItem of a key that was never set.
Null == "<null>"

\* A ref holding null (object handles are construction numbers 1, 2, ...).
NoObject == 0

\* rotation.x += 0.01, rotation.y += 0.015
RotStepX == 10
RotStepY == 15

\* rect.width || 800, rect.height || 600
FallbackWidth == 800
FallbackHeight == 600

\* ------------------------------------------------------------ JS numbers
\* A JavaScript number: finite (fixed-point) or Infinity.
Num(n) == [t |-> "num", v |-> n]
Infinity == [t |-> "inf", v |-> 0]

\* a += d
NumAdd(a, d) == IF a.t = "num" THEN Num(a.v + d) ELSE a

\* typeof v === 'number'
TypeofNumber(v) == v.t \in {"num", "inf"}

\* A JSON member as written in the stored text: a number literal, a literal
\* too large for a double ("1e999"), null, a string, or no member at all.
JsonNum(n) == [t |-> "num", v |-> n]
JsonHuge == [t |-> "1e999", v |-> 0]
JsonNull == [t |-> "null", v |-> 0]
JsonString == [t |-> "string", v |-> 0]
JsonMissing == [t |-> "undefined", v |-> 0]

\* JSON.stringify of a number member: non-finite numbers are written as null.
StringifyNumber(a) == IF a.t = "num" THEN JsonNum(a.v) ELSE JsonNull

\* JSON.parse of a member: 1e999 overflows to Infinity; the other tokens are
\* not numbers.
ParseMember(m) ==
  IF m.t = "num" THEN Num(m.v)
  ELSE IF m.t = "1e999" THEN Infinity
  ELSE m

\* The text stored under 'meshRotation'.
RotAbsent == [kind |-> "absent", x |-> JsonMissing, y |-> JsonMissing, z |-> JsonMissing]
RotGarbage == [kind |-> "unparsable", x |-> JsonMissing, y |-> JsonMissing, z |-> JsonMissing]
RotJsonNull == [kind |-> "null", x |-> JsonMissing, y |-> JsonMissing, z |-> JsonMissing]
RotObject(x, y, z) == [kind |-> "object", x |-> x, y |-> y, z |-> z]

\* new THREE.Mesh(...).rotation
ZeroRotation == [x |-> Num(0), y |-> Num(0), z |-> Num(0)]

\* StringifyRotation of { x: r.x, y: r.y, z: 0 }.
StringifyRotationNoZ(r) ==
  RotObject(StringifyNumber(r.x), StringifyNumber(r.y), JsonNum(0))

\* JSON.stringify({ x: r.x, y: r.y, z: r.z })
StringifyRotation(r) ==
  RotObject(StringifyNumber(r.x), StringifyNumber(r.y), StringifyNumber(r.z))

\* RestoreRotation with mesh.rotation.set(rot.x, rot.y, 0).
RestoreRotationDropZ(stored) ==
  IF stored.kind # "object" THEN ZeroRotation
  ELSE LET x == ParseMember(stored.x)
           y == ParseMember(stored.y)
           z == ParseMember(stored.z)
       IN IF TypeofNumber(x) /\ TypeofNumber(y) /\ TypeofNumber(z)
          THEN [x |-> x, y |-> y, z |-> Num(0)]
          ELSE ZeroRotation

\* Lines 143-151: the rotation of the new mesh after the restore step.
RestoreRotation(stored) ==
  IF stored.kind # "object" THEN ZeroRotation
  ELSE LET x == ParseMember(stored.x)
           y == ParseMember(stored.y)
           z == ParseMember(stored.z)
       IN IF TypeofNumber(x) /\ TypeofNumber(y) /\ TypeofNumber(z)
          THEN [x |-> x, y |-> y, z |-> z]
          ELSE ZeroRotation

\* RotateStep with the two increments exchanged.
RotateStepSwapped(r) ==
  [r EXCEPT !.x = NumAdd(@, RotStepY), !.y = NumAdd(@, RotStepX)]

\* Lines 165-166.
RotateStep(r) ==
  [r EXCEPT !.x = NumAdd(@, RotStepX), !.y = NumAdd(@, RotStepY)]

\* ShouldRotate without the test of autoRotateRef.
ShouldRotateAlways(flag, mesh) == mesh # NoObject

\* Line 164.
ShouldRotate(flag, mesh) == flag /\ mesh # NoObject

\* RenderedRotation when render is called before the rotation is advanced.
RenderedBeforeRotation(before, after) == before

\* Line 171 follows lines 165-169: render draws the rotation animate leaves.
RenderedRotation(before, after) == after

\* InitialGeometryKey without the test against the catalog.
InitialGeometryKeyUnchecked(stored) ==
  IF stored # Null /\ stored # "" THEN stored ELSE "box"

\* Lines 64-70: the useState initialiser of geometryKey.
InitialGeometryKey(stored) ==
  IF stored # Null /\ stored # "" /\ stored \in GeometryKeys THEN stored ELSE "box"

\* Line 72 and line 75.
InitialWireframe(stored) == stored = "true"
InitialAutoRotate(stored) == stored # "false"

\* String(flag)
BoolString(b) == IF b THEN "true" ELSE "false"

\* CancelAnimationFrame that cancels nothing.
CancelNothing(queue, id) == queue

\* window.requestAnimationFrame / cancelAnimationFrame on the frame queue.
RequestAnimationFrame(queue, id, c) == queue \cup {[id |-> id, c |-> c]}
CancelAnimationFrame(queue, id) == {cb \in queue : cb.id # id}

\* Node.removeChild / appendChild on the mount div.
RemoveChild(children, el) == children \ {el}
AppendChild(children, el) == children \cup {el}

\* OrFallback without the || fallback.
NoFallback(v, fallback) == v

\* rect.width || 800, rect.height || 600
OrFallback(v, fallback) == IF v = 0 THEN fallback ELSE v

\* ------------------------------------------------------- initial contents
StoredKeys == {Null, "doesNotExist", "sphere"}
StoredFlags == {Null, "true", "false"}
StoredRotations ==
  { RotAbsent, RotGarbage,
    RotObject(JsonNum(1200), JsonNum(400), JsonNum(700)),
    RotObject(JsonMissing, JsonString, JsonNum(0)),
    RotObject(JsonNum(1200), JsonNum(400), JsonHuge) }
\* Sizes the mount div reports: a laid-out one and a collapsed one.
Rects == {<<1024, 768>>, <<0, 0>>}

\* The same with the sizes that have exactly one zero dimension.
AllRects == Rects \cup {<<0, 768>>, <<1024, 0>>}

MountEffects == <<"wireSync", "autoSync", "keySave", "scene", "wireApply">>

\* currentMeshRef before the first construction refers to no mesh.
NoMesh == [key |-> "", wire |-> FALSE, needsUpdate |-> FALSE, rot |-> ZeroRotation]

VARIABLES
  lsGeometryKey, lsWireframe, lsAutoRotate, lsMeshRotation,  \* localStorage
  geometryKey, wireframe, autoRotate,                         \* React state
  wireframeRef, autoRotateRef,                                \* mirror refs
  mountRef, sceneRef, cameraRef, rendererRef, currentMeshRef, animRef,
  cons,            \* per construction: how often its objects were disposed
  mesh,            \* the mesh currentMeshRef refers to
  aspect, size,    \* camera.aspect (as a pair) and the renderer size
  mountChildren,   \* canvases attached to the mount div
  rafQueue,        \* callbacks registered with requestAnimationFrame
  nextRaf,         \* the next request id
  listeners,       \* constructions whose handleResize is registered
  mounted, pending,
  event,           \* the click being processed, "none" between events
  renders,         \* calls of renderer.render
  staleTick,       \* a frame ran on disposed objects
  staleResize,     \* a resize ran on disposed objects
  hTicks, hPersisted, hRestored, hAutoAtConstruct, hAlwaysOn,
  hRect,           \* the last size getBoundingClientRect reported
  hRendered        \* the mesh rotation the last render drew

storeVars == <<lsGeometryKey, lsWireframe, lsAutoRotate, lsMeshRotation>>
stateVars == <<geometryKey, wireframe, autoRotate>>
refVars == <<mountRef, sceneRef, cameraRef, rendererRef, currentMeshRef, animRef>>
objVars == <<cons, mesh, aspect, size>>
staleVars == <<staleTick, staleResize>>
histVars == <<hTicks, hPersisted, hRestored, hAutoAtConstruct, hAlwaysOn,
              hRect, hRendered>>
vars == <<storeVars, stateVars, wireframeRef, autoRotateRef, refVars, objVars,
          mountChildren, rafQueue, nextRaf, listeners, mounted,
          pending, event, renders, staleTick, staleResize, histVars>>

Idle == pending = <<>>

\* Frames delivered by the scheduler so far (every construction and every
\* frame makes one request).
Ticks == nextRaf - 1 - Len(cons)

\* The first render has run (useState initialisers, useRef), the div is
\* attached to mountRef, and the effects of the mount are queued.
Init ==
  /\ lsGeometryKey \in StoredKeys
  /\ lsWireframe \in StoredFlags
  /\ lsAutoRotate \in StoredFlags
  /\ lsMeshRotation \in StoredRotations
  /\ geometryKey = InitialGeometryKey(lsGeometryKey)
  /\ wireframe = InitialWireframe(lsWireframe)
  /\ autoRotate = InitialAutoRotate(lsAutoRotate)
  /\ wireframeRef = wireframe
  /\ autoRotateRef = autoRotate
  /\ mountRef = "div"
  /\ sceneRef = NoObject
  /\ cameraRef = NoObject
  /\ rendererRef = NoObject
  /\ currentMeshRef = NoObject
  /\ animRef = 0
  /\ cons = <<>>
  /\ mesh = NoMesh
  /\ aspect = <<0, 0>>
  /\ size = <<0, 0>>
  /\ mountChildren = {}
  /\ rafQueue = {}
  /\ nextRaf = 1
  /\ listeners = {}
  /\ mounted = TRUE
  /\ pending = MountEffects
  /\ event = "mount"
  /\ renders = 0
  /\ staleTick = FALSE
  /\ staleResize = FALSE
  /\ hTicks = 0
  /\ hPersisted = RotAbsent
  /\ hRestored = ZeroRotation
  /\ hAutoAtConstruct = FALSE
  /\ hAlwaysOn = FALSE
  /\ hRect = <<0, 0>>
  /\ hRendered = ZeroRotation

\* The click has been processed when its last effect has run.
Done(rest) == IF rest = <<>> THEN "none" ELSE event

\* ---------------------------------------------------------------- effects
\* WireSyncEffect without the setItem of line 85.
WireSyncEffectNoSave ==
  /\ pending # <<>> /\ Head(pending) = "wireSync"
  /\ wireframeRef' = wireframe
  /\ pending' = Tail(pending)
  /\ event' = Done(Tail(pending))
  /\ UNCHANGED <<storeVars, stateVars, autoRotateRef, refVars, objVars,
                 mountChildren, rafQueue, nextRaf, listeners, mounted, renders,
                 staleVars, histVars>>

\* WireSyncEffect without the ref update of line 84.
WireSyncEffectNoRef ==
  /\ pending # <<>> /\ Head(pending) = "wireSync"
  /\ lsWireframe' = BoolString(wireframe)
  /\ pending' = Tail(pending)
  /\ event' = Done(Tail(pending))
  /\ UNCHANGED <<lsGeometryKey, lsAutoRotate, lsMeshRotation, stateVars,
                 wireframeRef, autoRotateRef, refVars, objVars, mountChildren,
                 rafQueue, nextRaf, listeners, mounted, renders, staleVars,
                 histVars>>

\* Lines 83-87.
WireSyncEffect ==
  /\ pending # <<>> /\ Head(pending) = "wireSync"
  /\ wireframeRef' = wireframe
  /\ lsWireframe' = BoolString(wireframe)
  /\ pending' = Tail(pending)
  /\ event' = Done(Tail(pending))
  /\ UNCHANGED <<lsGeometryKey, lsAutoRotate, lsMeshRotation, stateVars,
                 autoRotateRef, refVars, objVars, mountChildren, rafQueue,
                 nextRaf, listeners, mounted, renders, staleVars,
                 histVars>>

\* AutoSyncEffect without the ref update of line 90.
AutoSyncEffectNoRef ==
  /\ pending # <<>> /\ Head(pending) = "autoSync"
  /\ lsAutoRotate' = BoolString(autoRotate)
  /\ pending' = Tail(pending)
  /\ event' = Done(Tail(pending))
  /\ UNCHANGED <<lsGeometryKey, lsWireframe, lsMeshRotation, stateVars,
                 wireframeRef, autoRotateRef, refVars, objVars, mountChildren,
                 rafQueue, nextRaf, listeners, mounted, renders, staleVars,
                 histVars>>

\* Lines 89-93.
AutoSyncEffect ==
  /\ pending # <<>> /\ Head(pending) = "autoSync"
  /\ autoRotateRef' = autoRotate
  /\ lsAutoRotate' = BoolString(autoRotate)
  /\ pending' = Tail(pending)
  /\ event' = Done(Tail(pending))
  /\ UNCHANGED <<lsGeometryKey, lsWireframe, lsMeshRotation, stateVars,
                 wireframeRef, refVars, objVars, mountChildren, rafQueue,
                 nextRaf, listeners, mounted, renders, staleVars,
                 histVars>>

\* Lines 95-98.
KeySaveEffect ==
  /\ pending # <<>> /\ Head(pending) = "keySave"
  /\ lsGeometryKey' = geometryKey
  /\ pending' = Tail(pending)
  /\ event' = Done(Tail(pending))
  /\ UNCHANGED <<lsWireframe, lsAutoRotate, lsMeshRotation, stateVars,
                 wireframeRef, autoRotateRef, refVars, objVars, mountChildren,
                 rafQueue, nextRaf, listeners, mounted, renders,
                 staleVars, histVars>>

\* Lines 124, 138-139: a new renderer, geometry and material, none disposed.
NewResources ==
  [ rendererDisposed |-> 0, geometryDisposed |-> 0, materialDisposed |-> 0,
    sceneCleared |-> FALSE ]

\* Lines 137-140: the mesh of the selected geometry.
NewMesh(key, wire, rot) ==
  [key |-> key, wire |-> wire, needsUpdate |-> FALSE, rot |-> rot]

\* Lines 118-119: the renderer left in rendererRef is disposed (again).
DisposeOldRenderer(cs, old) ==
  IF old # NoObject THEN [cs EXCEPT ![old].rendererDisposed = @ + 1] ELSE cs

\* DetachOldCanvas without the removeChild.
KeepOldCanvas(children, old) == children

\* Lines 118-123: its canvas is removed from the mount div.
DetachOldCanvas(children, old) ==
  IF old # NoObject /\ old \in children THEN RemoveChild(children, old)
  ELSE children

\* Lines 102-186: the scene effect, with the first call of animate (line 173);
\* rect is what getBoundingClientRect reports (line 112).
SceneEffect(rect) ==
  /\ pending # <<>> /\ Head(pending) = "scene"
  /\ pending' = Tail(pending)
  /\ event' = Done(Tail(pending))
  /\ IF mountRef = Null
     THEN UNCHANGED <<storeVars, refVars, objVars, mountChildren, rafQueue,
                      nextRaf, listeners, renders, histVars>>
     ELSE LET c == Len(cons) + 1
              restored == RestoreRotation(lsMeshRotation)
              rotating == ShouldRotate(autoRotateRef, c)
              rot == IF rotating THEN RotateStep(restored) ELSE restored
          IN /\ cons' = Append(DisposeOldRenderer(cons, rendererRef),
                               NewResources)
             /\ mesh' = NewMesh(geometryKey, wireframeRef, rot)
             /\ aspect' = rect
             /\ size' = rect
             /\ mountChildren' =
                  AppendChild(DetachOldCanvas(mountChildren, rendererRef), c)
             /\ sceneRef' = c
             /\ cameraRef' = c
             /\ rendererRef' = c
             /\ currentMeshRef' = c
             /\ animRef' = nextRaf
             /\ rafQueue' = RequestAnimationFrame(rafQueue, nextRaf, c)
             /\ nextRaf' = nextRaf + 1
             /\ lsMeshRotation' =
                  IF rotating THEN StringifyRotation(rot) ELSE lsMeshRotation
             /\ renders' = renders + 1
             /\ listeners' = listeners \cup {c}
             /\ hTicks' = 0
             /\ hPersisted' = lsMeshRotation
             /\ hRestored' = restored
             /\ hAutoAtConstruct' = rotating
             /\ hAlwaysOn' = rotating
             /\ hRect' = rect
             /\ hRendered' = RenderedRotation(restored, rot)
             /\ UNCHANGED <<lsGeometryKey, lsWireframe, lsAutoRotate, mountRef>>
  /\ UNCHANGED <<stateVars, wireframeRef, autoRotateRef, mounted,
                 staleVars>>

\* Lines 200-207.
WireApplyEffect ==
  /\ pending # <<>> /\ Head(pending) = "wireApply"
  /\ pending' = Tail(pending)
  /\ event' = Done(Tail(pending))
  /\ mesh' = IF currentMeshRef = NoObject THEN mesh
             ELSE [mesh EXCEPT !.wire = wireframe, !.needsUpdate = TRUE]
  /\ UNCHANGED <<storeVars, stateVars, wireframeRef, autoRotateRef, refVars,
                 cons, aspect, size, mountChildren, rafQueue, nextRaf,
                 listeners, mounted, renders, staleVars, histVars>>

\* SceneCleanupStop without line 190.
SceneCleanupStopKeepListener ==
  /\ pending # <<>> /\ Head(pending) = "cleanupStop"
  /\ pending' = Tail(pending)
  /\ event' = Done(Tail(pending))
  /\ rafQueue' = IF animRef # 0 THEN CancelAnimationFrame(rafQueue, animRef)
                 ELSE rafQueue
  /\ UNCHANGED <<storeVars, stateVars, wireframeRef, autoRotateRef, refVars,
                 objVars, mountChildren, nextRaf, listeners, mounted, renders,
                 staleVars, histVars>>

\* SceneCleanupStop without line 191.
SceneCleanupStopNoCancel ==
  /\ pending # <<>> /\ Head(pending) = "cleanupStop"
  /\ pending' = Tail(pending)
  /\ event' = Done(Tail(pending))
  /\ listeners' = listeners \ {Len(cons)}
  /\ UNCHANGED <<storeVars, stateVars, wireframeRef, autoRotateRef, refVars,
                 objVars, mountChildren, rafQueue, nextRaf, mounted, renders,
                 staleVars, histVars>>

\* Lines 190-191 of the cleanup: the listener and the pending frame.
SceneCleanupStop ==
  /\ pending # <<>> /\ Head(pending) = "cleanupStop"
  /\ pending' = Tail(pending)
  /\ event' = Done(Tail(pending))
  /\ listeners' = listeners \ {Len(cons)}
  /\ rafQueue' = IF animRef # 0 THEN CancelAnimationFrame(rafQueue, animRef)
                 ELSE rafQueue
  /\ UNCHANGED <<storeVars, stateVars, wireframeRef, autoRotateRef, refVars,
                 objVars, mountChildren, nextRaf, mounted, renders,
                 staleVars, histVars>>

\* Lines 192-195 of the cleanup.
SceneCleanupDispose ==
  /\ pending # <<>> /\ Head(pending) = "cleanupDispose"
  /\ pending' = Tail(pending)
  /\ event' = Done(Tail(pending))
  /\ cons' = [cons EXCEPT ![Len(cons)].rendererDisposed = @ + 1,
                          ![Len(cons)].geometryDisposed = @ + 1,
                          ![Len(cons)].materialDisposed = @ + 1,
                          ![Len(cons)].sceneCleared = TRUE]
  /\ UNCHANGED <<storeVars, stateVars, wireframeRef, autoRotateRef, refVars,
                 mesh, aspect, size, mountChildren, rafQueue, nextRaf,
                 listeners, mounted, renders, staleVars, histVars>>

\* ----------------------------------------------------------------- events
\* Line 228: a catalog button; the effects that depend on geometryKey re-run
\* (a click on the selected shape changes no state and runs no effect).
SelectShape(k) ==
  /\ Idle /\ mounted
  /\ k # geometryKey
  /\ Len(cons) < MaxConstructions
  /\ geometryKey' = k
  /\ pending' = <<"cleanupStop", "cleanupDispose", "keySave", "scene">>
  /\ event' = "select"
  /\ UNCHANGED <<storeVars, wireframe, autoRotate, wireframeRef, autoRotateRef,
                 refVars, objVars, mountChildren, rafQueue, nextRaf, listeners,
                 mounted, renders, staleVars, histVars>>

\* ToggleWireframe as if the scene effect depended on wireframe too.
ToggleWireframeRebuild ==
  /\ Idle /\ mounted
  /\ wireframe' = ~wireframe
  /\ pending' = <<"cleanupStop", "cleanupDispose", "wireSync", "scene",
                  "wireApply">>
  /\ event' = "wireframe"
  /\ UNCHANGED <<storeVars, geometryKey, autoRotate, wireframeRef,
                 autoRotateRef, refVars, objVars, mountChildren, rafQueue,
                 nextRaf, listeners, mounted, renders, staleVars,
                 histVars>>

\* Line 237.
ToggleWireframe ==
  /\ Idle /\ mounted
  /\ wireframe' = ~wireframe
  /\ pending' = <<"wireSync", "wireApply">>
  /\ event' = "wireframe"
  /\ UNCHANGED <<storeVars, geometryKey, autoRotate, wireframeRef,
                 autoRotateRef, refVars, objVars, mountChildren, rafQueue,
                 nextRaf, listeners, mounted, renders, staleVars,
                 histVars>>

\* Line 240.
ToggleAutoRotate ==
  /\ Idle /\ mounted
  /\ autoRotate' = ~autoRotate
  /\ pending' = <<"autoSync">>
  /\ event' = "autoRotate"
  /\ UNCHANGED <<storeVars, geometryKey, wireframe, wireframeRef,
                 autoRotateRef, refVars, objVars, mountChildren, rafQueue,
                 nextRaf, listeners, mounted, renders, staleVars,
                 histVars>>

\* The component is removed: React clears the ref of the div and runs the
\* cleanup of the scene effect (the only effect that returns one).
Unmount ==
  /\ Idle /\ mounted
  /\ mounted' = FALSE
  /\ mountRef' = Null
  /\ pending' = <<"cleanupStop", "cleanupDispose">>
  /\ event' = "unmount"
  /\ UNCHANGED <<storeVars, stateVars, wireframeRef, autoRotateRef, sceneRef,
                 cameraRef, rendererRef, currentMeshRef, animRef, objVars,
                 mountChildren, rafQueue, nextRaf, listeners, renders,
                 staleVars, histVars>>

\* The renderer, geometry or material of a construction is already disposed.
Disposed(con) ==
  con.rendererDisposed > 0 \/ con.geometryDisposed > 0 \/ con.materialDisposed > 0

\* Lines 162-172: the scheduler invokes a registered animate.
Tick ==
  /\ Idle
  /\ Ticks < MaxFrames
  /\ \E cb \in rafQueue :
       LET rotating == ShouldRotate(autoRotateRef, currentMeshRef)
           rot == IF rotating THEN RotateStep(mesh.rot) ELSE mesh.rot
       IN /\ rafQueue' = RequestAnimationFrame(rafQueue \ {cb}, nextRaf, cb.c)
          /\ animRef' = nextRaf
          /\ nextRaf' = nextRaf + 1
          /\ mesh' = [mesh EXCEPT !.rot = rot]
          /\ lsMeshRotation' =
               IF rotating THEN StringifyRotation(rot) ELSE lsMeshRotation
          /\ renders' = renders + 1
          /\ staleTick' = (staleTick \/ Disposed(cons[cb.c]))
          /\ hAlwaysOn' = (hAlwaysOn /\ rotating)
          /\ hRendered' = RenderedRotation(mesh.rot, rot)
  /\ hTicks' = hTicks + 1
  /\ UNCHANGED <<lsGeometryKey, lsWireframe, lsAutoRotate, stateVars,
                 wireframeRef, autoRotateRef, mountRef, sceneRef, cameraRef,
                 rendererRef, currentMeshRef, cons, aspect, size, mountChildren,
                 listeners, mounted, pending, event, staleResize,
                 hPersisted, hRestored, hAutoAtConstruct, hRect>>

\* Lines 177-183: the size handleResize gives the camera and the renderer.
ResizedTo(rect) ==
  << OrFallback(rect[1], FallbackWidth), OrFallback(rect[2], FallbackHeight) >>

\* Resize whose handler also redraws through renderer.render.
ResizeAndRender(w, h) ==
  /\ Idle
  /\ IF Len(cons) \in listeners /\ mountRef # Null
     THEN /\ aspect' = ResizedTo(<<w, h>>)
          /\ size' = ResizedTo(<<w, h>>)
          /\ hRect' = <<w, h>>
          /\ renders' = renders + 1
     ELSE UNCHANGED <<aspect, size, hRect, renders>>
  /\ staleResize' = (staleResize \/ \E c \in listeners :
                                       mountRef # Null /\ Disposed(cons[c]))
  /\ UNCHANGED <<storeVars, stateVars, wireframeRef, autoRotateRef, refVars,
                 cons, mesh, mountChildren, rafQueue, nextRaf, listeners,
                 mounted, pending, event, staleTick, hTicks,
                 hPersisted, hRestored, hAutoAtConstruct, hAlwaysOn,
                 hRendered>>

\* The window is resized to (w, h): every registered handleResize runs (lines
\* 176-184) on the camera and renderer of its construction.
Resize(w, h) ==
  /\ Idle
  /\ IF Len(cons) \in listeners /\ mountRef # Null
     THEN /\ aspect' = ResizedTo(<<w, h>>)
          /\ size' = ResizedTo(<<w, h>>)
          /\ hRect' = <<w, h>>
     ELSE UNCHANGED <<aspect, size, hRect>>
  /\ staleResize' = (staleResize \/ \E c \in listeners :
                                       mountRef # Null /\ Disposed(cons[c]))
  /\ UNCHANGED <<storeVars, stateVars, wireframeRef, autoRotateRef, refVars,
                 cons, mesh, mountChildren, rafQueue, nextRaf, listeners,
                 mounted, pending, event, renders, staleTick, hTicks,
                 hPersisted, hRestored, hAutoAtConstruct, hAlwaysOn,
                 hRendered>>

Next ==
  \/ WireSyncEffect
  \/ AutoSyncEffect
  \/ KeySaveEffect
  \/ \E rect \in Rects : SceneEffect(rect)
  \/ WireApplyEffect
  \/ SceneCleanupStop
  \/ SceneCleanupDispose
  \/ \E k \in GeometryKeys : SelectShape(k)
  \/ ToggleWireframe
  \/ ToggleAutoRotate
  \/ Unmount
  \/ Tick
  \/ \E r \in Rects : Resize(r[1], r[2])

Spec == Init /\ [][Next]_vars

\* The component mounted on an empty store, with every size the mount div
\* may report.
InitViewport ==
  /\ Init
  /\ lsGeometryKey = Null
  /\ lsWireframe = Null
  /\ lsMeshRotation = RotAbsent

NextViewport ==
  \/ WireSyncEffect
  \/ AutoSyncEffect
  \/ KeySaveEffect
  \/ \E rect \in AllRects : SceneEffect(rect)
  \/ WireApplyEffect
  \/ SceneCleanupStop
  \/ SceneCleanupDispose
  \/ \E k \in GeometryKeys : SelectShape(k)
  \/ ToggleWireframe
  \/ ToggleAutoRotate
  \/ Unmount
  \/ Tick
  \/ \E r \in AllRects : Resize(r[1], r[2])

SpecViewport == InitViewport /\ [][NextViewport]_vars

\* ================================================================ claims
\* The newest construction, and whether its cleanup has disposed it.
Latest == Len(cons)
TornDown == cons # <<>> /\ cons[Latest].geometryDisposed > 0

\* All three members of a rotation are finite numbers.
Finite(r) == r.x.t = "num" /\ r.y.t = "num" /\ r.z.t = "num"

\* The rotation r advanced by n frames of auto-rotation.
Advanced(r, n) ==
  [x |-> Num(r.x.v + n * RotStepX), y |-> Num(r.y.v + n * RotStepY), z |-> r.z]

\* The stored text is a JSON object with three numeric members.
ValidStored(p) ==
  p.kind = "object" /\ p.x.t = "num" /\ p.y.t = "num" /\ p.z.t = "num"

\* The orientation a valid stored text describes.
StoredOrientation(p) == [x |-> Num(p.x.v), y |-> Num(p.y.v), z |-> Num(p.z.v)]

\* C1: in every teardown the pending frame callback is cancelled before the
\* renderer, geometry and material are disposed: no callback is registered
\* for a construction any of whose objects is disposed, and no frame has run
\* on disposed objects.
C1_NoFrameOnDisposed ==
  /\ ~staleTick
  /\ \A cb \in rafQueue : ~Disposed(cons[cb.c])

\* A frame runs on the second construction after the first was torn down.
C1_Witness ==
  /\ Latest = 2 /\ Disposed(cons[1]) /\ hTicks >= 1 /\ rafQueue # {}

\* C2: at most one frame callback is registered at any time, and it belongs
\* to the newest construction.
C2_AtMostOneCallback ==
  /\ Cardinality(rafQueue) <= 1
  /\ \A cb \in rafQueue : cb.c = Latest /\ cb.id = animRef

\* After a shape change and a frame exactly one callback is registered.
C2_Witness ==
  /\ Latest = 2 /\ Ticks >= 2 /\ Cardinality(rafQueue) = 1 /\ Idle

\* C3: construct followed immediately by teardown leaves no registered
\* callback and no retained geometry/material handle.
C3_NothingRetained ==
  (TornDown /\ hTicks = 0) =>
     (rafQueue = {} /\ currentMeshRef = NoObject)

\* C4: every renderer, geometry and material is disposed at most once, and
\* exactly once when the component has been unmounted.
C4_ReleasedExactlyOnce ==
  /\ \A c \in DOMAIN cons :
       /\ cons[c].rendererDisposed <= 1
       /\ cons[c].geometryDisposed <= 1
       /\ cons[c].materialDisposed <= 1
  /\ (~mounted /\ Idle) =>
       \A c \in DOMAIN cons :
         /\ cons[c].rendererDisposed = 1
         /\ cons[c].geometryDisposed = 1
         /\ cons[c].materialDisposed = 1

\* C5: the mount div never holds more than one canvas; the canvas of every
\* earlier construction is detached and its renderer released.
C5_OneCanvas ==
  /\ Cardinality(mountChildren) <= 1
  /\ \A c \in DOMAIN cons :
       c < Latest => (c \notin mountChildren /\ cons[c].rendererDisposed > 0)

\* After a shape switch only the canvas of the new construction is attached.
C5_Witness ==
  /\ Latest = 2 /\ mountChildren = {2} /\ Idle

C7_TickWithoutRotation ==
  [][ hTicks' = hTicks + 1 =>
        /\ renders' = renders + 1
        /\ ~autoRotate => (mesh' = mesh /\ lsMeshRotation' = lsMeshRotation)
    ]_vars

\* Two frames were rendered with auto-rotate off since the mount.
C7_Witness ==
  /\ ~autoRotate /\ ~hAutoAtConstruct /\ hTicks = 2 /\ renders = 3
  /\ mesh.rot = hRestored /\ Finite(hRestored) /\ hRestored.x.v = 1200

C9_SelectedShapeInCatalog ==
  /\ geometryKey \in GeometryKeys
  /\ currentMeshRef # NoObject => mesh.key \in GeometryKeys
  /\ (pending = MountEffects /\ lsGeometryKey \notin GeometryKeys) =>
        geometryKey = "box"

\* The store held "doesNotExist" and the component shows the box.
C9_Witness ==
  /\ pending = <<"keySave", "scene", "wireApply">>
  /\ lsGeometryKey = "doesNotExist" /\ geometryKey = "box"

\* C10: processing a wireframe toggle changes only the wireframe state, its
\* mirror ref, the stored preference and the flag of the current material:
\* no object is created or disposed, the rotation, the frame callback and the
\* listeners are untouched.
C10_WireframeOnlyFlag ==
  [][ (event = "wireframe" \/ event' = "wireframe") =>
        /\ UNCHANGED <<cons, aspect, size, mountChildren, rafQueue, nextRaf,
                       listeners, renders, refVars, geometryKey, autoRotate,
                       autoRotateRef, lsGeometryKey, lsAutoRotate,
                       lsMeshRotation, mounted, histVars>>
        /\ mesh'.rot = mesh.rot
        /\ mesh'.key = mesh.key ]_vars

\* The wireframe flag of the second mesh was toggled while its loop runs.
C10_Witness ==
  /\ Latest = 2 /\ Idle /\ mesh.needsUpdate /\ mesh.wire = wireframe
  /\ lsWireframe = BoolString(wireframe) /\ hTicks >= 1 /\ rafQueue # {}

\* A step that starts and ends between events and is no frame: a resize.
ResizeStep == pending = <<>> /\ pending' = <<>> /\ hTicks' = hTicks

\* C11: a construction on a viewport of zero width or height substitutes a
\* non-zero fallback size, so neither term of the camera aspect nor the
\* renderer size is ever zero.
C11_ConstructFallback ==
  cons # <<>> =>
     (aspect[1] # 0 /\ aspect[2] # 0 /\ size[1] # 0 /\ size[2] # 0)

\* C12: a resize substitutes 800 for a zero width and 600 for a zero height,
\* so the aspect after a resize is a quotient of two non-zero sizes.
C12_ResizeFallback ==
  [][ ResizeStep =>
        /\ aspect' = << IF hRect'[1] = 0 THEN FallbackWidth ELSE hRect'[1],
                        IF hRect'[2] = 0 THEN FallbackHeight ELSE hRect'[2] >>
        /\ size' = aspect'
        /\ aspect'[1] # 0 /\ aspect'[2] # 0 ]_vars

\* The div reported zero width and a height of 768 to a resize.
C12_Witness ==
  /\ Idle /\ mounted /\ hRect = <<0, 768>> /\ aspect = <<800, 768>>
  /\ size = <<800, 768>>

\* The stored text is present but is no JSON object of three finite numbers.
Malformed(p) == p.kind # "absent" /\ ~ValidStored(p)

\* C13: a malformed persisted rotation is treated as not present: the
\* restore step leaves the mesh at the default rotation (0, 0, 0).
C13_MalformedIgnored ==
  (cons # <<>> /\ Malformed(hPersisted)) => hRestored = ZeroRotation

\* C14: once a change has been processed the store holds the selected
\* shape, the wireframe flag and the auto-rotate flag.
C14_StoreMirrorsState ==
  (Idle /\ cons # <<>>) =>
     /\ lsGeometryKey = geometryKey
     /\ lsWireframe = (IF wireframe THEN "true" ELSE "false")
     /\ lsAutoRotate = (IF autoRotate THEN "true" ELSE "false")

\* A second shape with wireframe on and auto-rotate off, all three stored.
C14_Witness ==
  /\ Idle /\ Latest = 2 /\ mesh.needsUpdate
  /\ lsGeometryKey = "torus" /\ lsWireframe = "true" /\ lsAutoRotate = "false"

\* C15: in a frame with auto-rotate on the rotation is advanced, then
\* persisted, then rendered: the frame shows the advanced rotation and the
\* persisted text is that rotation's.
C15_RotateThenRender ==
  [][ (hTicks' = hTicks + 1 /\ autoRotate) =>
        /\ mesh'.rot # mesh.rot
        /\ hRendered' = mesh'.rot
        /\ lsMeshRotation' = StringifyRotation(hRendered') ]_vars

\* A frame drew and persisted the rotation (1.22, 0.43, 0.7).
C15_Witness ==
  /\ hTicks = 1 /\ hAlwaysOn /\ hRendered = mesh.rot
  /\ mesh.rot = [x |-> Num(1220), y |-> Num(430), z |-> Num(700)]
  /\ lsMeshRotation = RotObject(JsonNum(1220), JsonNum(430), JsonNum(700))

\* C16: a resize changes only the camera aspect and the renderer size: no
\* object is created or disposed, the mesh, the store, the state and the
\* frame callback are untouched.
C16_ResizeOnlySizes ==
  [][ ResizeStep =>
        UNCHANGED <<storeVars, stateVars, wireframeRef, autoRotateRef,
                    refVars, cons, mesh, mountChildren, rafQueue, nextRaf,
                    listeners, mounted, renders, hRendered>> ]_vars

\* The second construction was resized from a collapsed div while its loop
\* runs.
C16_Witness ==
  /\ Idle /\ mounted /\ Latest = 2 /\ hTicks >= 1 /\ rafQueue # {}
  /\ hRect = <<0, 0>> /\ aspect = <<800, 600>>

\* C17: processing an auto-rotate toggle leaves the frame callback and the
\* scene alone, and every frame rotates exactly when auto-rotate is on.
C17_ToggleSeenByNextFrame ==
  [][ /\ (event = "autoRotate" \/ event' = "autoRotate") =>
            UNCHANGED <<rafQueue, nextRaf, cons, mesh, aspect, size,
                        mountChildren, listeners, renders, refVars>>
      /\ hTicks' = hTicks + 1 =>
            mesh'.rot = (IF autoRotate THEN RotateStep(mesh.rot) ELSE mesh.rot)
    ]_vars

\* Auto-rotate was on for the construction and one frame, then switched off:
\* the second frame did not rotate.
C17_Witness ==
  /\ ~autoRotate /\ hAutoAtConstruct /\ hTicks = 2 /\ Finite(hRestored)
  /\ mesh.rot = Advanced(hRestored, 2) /\ rafQueue # {}

\* C18: once a change has been processed the wireframe flag of the current
\* material is the wireframe state.
C18_MaterialFollowsWireframe ==
  (Idle /\ cons # <<>>) => mesh.wire = wireframe

\* A mesh built by a shape change carries the flag without the wireframe
\* effect having run on it.
C18_Witness ==
  /\ Idle /\ Latest = 2 /\ ~mesh.needsUpdate /\ mesh.wire /\ wireframe
  /\ lsWireframe = "true"

\* C19: between callbacks, whenever the store holds a valid rotation the
\* mesh has that rotation.
C19_MeshEqualsPersisted ==
  (Idle /\ cons # <<>> /\ ValidStored(lsMeshRotation)) =>
     mesh.rot = StoredOrientation(lsMeshRotation)

\* After a shape switch with auto-rotate off the mesh still has the rotation
\* a frame persisted.
C19_Witness ==
  /\ Idle /\ Latest = 2 /\ ~hAutoAtConstruct /\ hTicks >= 1
  /\ ValidStored(lsMeshRotation) /\ lsMeshRotation.x.v = 1200 + 2 * RotStepX
  /\ mesh.rot.x = Num(1200 + 2 * RotStepX) /\ mesh.rot.z = Num(700)

\* C20: at most one resize listener is registered, it is the one of the
\* newest construction, none is left once that construction is torn down,
\* and no resize has run on disposed objects.
C20_OneResizeListener ==
  /\ Cardinality(listeners) <= 1
  /\ listeners \subseteq {Latest}
  /\ TornDown => listeners = {}
  /\ ~staleResize

\* A resize reached the second construction, the only one listening.
C20_Witness ==
  /\ Idle /\ Latest = 2 /\ listeners = {2} /\ Disposed(cons[1])
  /\ hRect = <<0, 0>> /\ aspect = <<800, 600>>

====
